---- MODULE Spec2Model ----
(***************************************************************************)
(* AeroKernel Parameter Manager (parameter.cpp / parameter.hpp, the draft  *)
(* with ControlBlockFactory and ControlBlockInterpreter).                  *)
(*                                                                         *)
(* The model has three parts:                                              *)
(*   - the bit-packed storage encoding (ControlBlockFactory::setStorage,   *)
(*     ControlBlockInterpreter::getStorage) as operators, exercised by the *)
(*     factory actions of SpecCodec;                                       *)
(*   - the Manager's operations, one caller at a time (SpecSeq);           *)
(*   - the same operations interleaved between two callers (Spec), each    *)
(*     operation split where it touches shared state: the unlocked checks, *)
(*     reserve(), the locked section ending in release(), the backend or   *)
(*     callback invocation.                                                *)
(***************************************************************************)
EXTENDS Integers, Sequences, FiniteSets, TLC

(***************************************************************************)
(* Bounds of the model.                                                    *)
(***************************************************************************)
\* size_t is modelled WordBits wide; only the low 3 bits of config and the
\* all-ones value of std::numeric_limits<size_t>::max() are ever inspected.
WordBits == 5

\* largest capacity passed to init()
MaxCapacity == 1

\* uint32_t, the argument of the event / log placeholders, is modelled
\* UIntBits wide
UIntBits == 6

(***************************************************************************)
(* Location constants and StorageType.                                     *)
(***************************************************************************)
MEM_LOC_POS == 0

MEM_LOC_MSK == 7

Loc_INVALID == 0

Loc_INTERNAL_SRAM == 1

Loc_INTERNAL_FLASH == 2

Loc_EXTERNAL_FLASH0 == 3

Loc_EXTERNAL_FLASH1 == 4

Loc_EXTERNAL_FLASH2 == 5

Loc_EXTERNAL_SRAM0 == 6

Loc_EXTERNAL_SRAM1 == 7

Loc_EXTERNAL_SRAM2 == 8

MAX_MEMORY_LOCATIONS == 8

\* enum class StorageType : uint8_t
INTERNAL_SRAM == 0

INTERNAL_FLASH == 1

EXTERNAL_FLASH0 == 2

EXTERNAL_FLASH1 == 3

EXTERNAL_FLASH2 == 4

EXTERNAL_SRAM0 == 5

EXTERNAL_SRAM1 == 6

EXTERNAL_SRAM2 == 7

NONE == 8

MAX_STORAGE_OPTIONS == NONE

\* the 8 enumerated storage locations
ValidLocations == INTERNAL_SRAM .. EXTERNAL_SRAM2

\* the 9 enumerated values
StorageTypes == INTERNAL_SRAM .. NONE

\* std::numeric_limits<size_t>::max() and ::min()
SizeMax == 2 ^ WordBits - 1

SizeMin == 0

Words == 0 .. SizeMax

(***************************************************************************)
(* Bit arithmetic on size_t.                                               *)
(***************************************************************************)
RECURSIVE BitAnd(_, _)
BitAnd(a, b) ==
    IF a = 0 \/ b = 0 THEN 0
    ELSE (IF a % 2 = 1 /\ b % 2 = 1 THEN 1 ELSE 0) + 2 * BitAnd(a \div 2, b \div 2)

RECURSIVE BitOr(_, _)
BitOr(a, b) ==
    IF a = 0 THEN b
    ELSE IF b = 0 THEN a
    ELSE (IF a % 2 = 1 \/ b % 2 = 1 THEN 1 ELSE 0) + 2 * BitOr(a \div 2, b \div 2)

\* ~x converted to size_t
BitNot(x) == SizeMax - x

(***************************************************************************)
(* ControlBlock, ControlBlockFactory, ControlBlockInterpreter.             *)
(***************************************************************************)
\* UpdateCallback_t values: nullptr, or a callable that returns true / false
NoCallback == "nullptr"

Callbacks == {"cbTrue", "cbFalse"}

ControlBlock(s, a, cfg, u) == [size |-> s, address |-> a, config |-> cfg, update |-> u]

\* a default-constructed ControlBlock (the in-class member initialisers)
DefaultControlBlock == ControlBlock(SizeMax, SizeMax, SizeMax, NoCallback)

\* the switch of ControlBlockFactory::setStorage
BitSettings(type) ==
    CASE type = INTERNAL_SRAM   -> BitAnd(Loc_INTERNAL_SRAM, MEM_LOC_MSK)
      [] type = INTERNAL_FLASH  -> BitAnd(Loc_INTERNAL_FLASH, MEM_LOC_MSK)
      [] type = EXTERNAL_FLASH0 -> BitAnd(Loc_EXTERNAL_FLASH0, MEM_LOC_MSK)
      [] type = EXTERNAL_FLASH1 -> BitAnd(Loc_EXTERNAL_FLASH1, MEM_LOC_MSK)
      [] type = EXTERNAL_FLASH2 -> BitAnd(Loc_EXTERNAL_FLASH2, MEM_LOC_MSK)
      [] type = EXTERNAL_SRAM0  -> BitAnd(Loc_EXTERNAL_SRAM0, MEM_LOC_MSK)
      [] type = EXTERNAL_SRAM1  -> BitAnd(Loc_EXTERNAL_SRAM1, MEM_LOC_MSK)
      [] type = EXTERNAL_SRAM2  -> BitAnd(Loc_EXTERNAL_SRAM2, MEM_LOC_MSK)
      [] OTHER                  -> BitAnd(Loc_INVALID, MEM_LOC_MSK)

\* setStorage that assigns the pattern to the whole config word
setStorage_OverwritesConfig(m, type) ==
    [m EXCEPT !.config = BitSettings(type)]

\* ControlBlockFactory::setStorage applied to the mold m
setStorage(m, type) ==
    [m EXCEPT !.config = BitOr(BitAnd(m.config, BitNot(MEM_LOC_MSK)), BitSettings(type))]

\* ControlBlockFactory::clear
clear(m) ==
    [m EXCEPT !.address = SizeMax, !.config = SizeMax, !.size = SizeMin, !.update = NoCallback]

setSize(m, s) == [m EXCEPT !.size = s]

\* setAddress that also drops the size set so far
setAddress_ResetsSize(m, a) == [m EXCEPT !.address = a, !.size = SizeMin]

setAddress(m, a) == [m EXCEPT !.address = a]

setUpdateCallback(m, cb) == [m EXCEPT !.update = cb]

\* ControlBlockFactory::build returns a copy of the mold
build(m) == m

\* getStorage with the results of two case labels exchanged
getStorage_Swapped(ctrlBlk) ==
    LET setBits == BitAnd(ctrlBlk.config, MEM_LOC_MSK)
    IN  CASE setBits = Loc_EXTERNAL_FLASH0 -> EXTERNAL_FLASH1
          [] setBits = Loc_EXTERNAL_FLASH1 -> EXTERNAL_FLASH0
          [] setBits = Loc_EXTERNAL_FLASH2 -> EXTERNAL_FLASH2
          [] setBits = Loc_EXTERNAL_SRAM0  -> EXTERNAL_SRAM0
          [] setBits = Loc_EXTERNAL_SRAM1  -> EXTERNAL_SRAM1
          [] setBits = Loc_EXTERNAL_SRAM2  -> EXTERNAL_SRAM2
          [] setBits = Loc_INTERNAL_FLASH  -> INTERNAL_FLASH
          [] setBits = Loc_INTERNAL_SRAM   -> INTERNAL_SRAM
          [] OTHER                         -> NONE

\* ControlBlockInterpreter::getStorage
getStorage(ctrlBlk) ==
    LET setBits == BitAnd(ctrlBlk.config, MEM_LOC_MSK)
    IN  CASE setBits = Loc_EXTERNAL_FLASH0 -> EXTERNAL_FLASH0
          [] setBits = Loc_EXTERNAL_FLASH1 -> EXTERNAL_FLASH1
          [] setBits = Loc_EXTERNAL_FLASH2 -> EXTERNAL_FLASH2
          [] setBits = Loc_EXTERNAL_SRAM0  -> EXTERNAL_SRAM0
          [] setBits = Loc_EXTERNAL_SRAM1  -> EXTERNAL_SRAM1
          [] setBits = Loc_EXTERNAL_SRAM2  -> EXTERNAL_SRAM2
          [] setBits = Loc_INTERNAL_FLASH  -> INTERNAL_FLASH
          [] setBits = Loc_INTERNAL_SRAM   -> INTERNAL_SRAM
          [] OTHER                         -> NONE

getAddress(ctrlBlk) == ctrlBlk.address

getSize(ctrlBlk) == ctrlBlk.size

getUpdateCallback(ctrlBlk) == ctrlBlk.update

(***************************************************************************)
(* Values the operations are called with.                                  *)
(***************************************************************************)
Callers == {"c1", "c2"}

Keys == {"k1", "k2"}

\* backend handles (Chimera::Modules::Memory::Device_sPtr) and descriptors
Handles == {"h1", "h2"}

NullDriver == "nullptr"

NoDescriptor == "default"

Descriptors == {"d1"}

\* what an out-of-bounds access of the Driver Table finds or leaves behind
Garbage == "garbage"

\* params[k] is the sequence of blocks stored under k: none or one
Absent == <<>>

NoStorage == 0 - 1

\* no size, address or count
NoNumber == 0 - 1

NoOwner == "free"

NoArg == "none"

\* no block
NoBlock == [size |-> NoNumber, address |-> NoNumber, config |-> NoNumber, update |-> NoArg]

\* blocks handed to registerParameter: two built by a factory, one written
\* as a plain struct
BlkFlash0 ==
    build(setUpdateCallback(setStorage(setAddress(setSize(clear(DefaultControlBlock), 4), 16),
                                       EXTERNAL_FLASH0), "cbTrue"))

BlkSram1 ==
    build(setUpdateCallback(setStorage(setAddress(setSize(clear(DefaultControlBlock), 1), 8),
                                       EXTERNAL_SRAM1), "cbFalse"))

BlkRaw == ControlBlock(2, 0, 0, NoCallback)

Blocks == {BlkFlash0, BlkSram1, BlkRaw}

\* StorageType arguments: two valid locations, the sentinel, and a uint8_t
\* value past the sentinel
OutOfRange == NONE + 1

StorageArgs == {EXTERNAL_FLASH0, EXTERNAL_SRAM1, NONE, OutOfRange}

Buffers == {"buf", "nullptr"}

\* the bytes a caller's buffer holds when it calls write
Data == {"x", "y"}

\* what a device returns for a range that was never written
Unwritten == "unwritten"

\* blocks of one size and address that a factory built for location L
BlkAt(L) == build(setStorage(setAddress(setSize(clear(DefaultControlBlock), 4), 16), L))

IoLocations == {EXTERNAL_FLASH0, EXTERNAL_SRAM1, EXTERNAL_SRAM2}

Capacities == 0 .. MaxCapacity

\* the inputs of the single-caller specification; stores says whether the
\* content of the backends is followed
SeqEnv ==
    [keys |-> Keys, blocks |-> Blocks, storages |-> StorageArgs,
     handles |-> {"h1"}, capacities |-> Capacities, lookupMissing |-> TRUE,
     data |-> {"x"}, stores |-> FALSE]

\* the inputs of the two-caller specification; its callers call
\* getControlBlock only for a key they have seen registered
ConcEnv ==
    [keys |-> {"k1"}, blocks |-> {BlkSram1, BlkRaw}, storages |-> {EXTERNAL_SRAM1, NONE},
     handles |-> Handles, capacities |-> {0}, lookupMissing |-> FALSE,
     data |-> {"x"}, stores |-> FALSE]

\* the inputs of the routing specification: one caller, one key, blocks that
\* differ only in their location, and backends that keep what is written
IoEnv ==
    [keys |-> {"k1"}, blocks |-> {BlkAt(L) : L \in IoLocations}, storages |-> IoLocations,
     handles |-> Handles, capacities |-> {0}, lookupMissing |-> FALSE,
     data |-> Data, stores |-> TRUE]

(***************************************************************************)
(* State.                                                                  *)
(***************************************************************************)
VARIABLES
    initialized,    \* Manager::initialized
    capacity,       \* the size params was last pre-sized to
    params,         \* Manager::params, key -> ControlBlock or Absent
    memoryDriver,   \* Manager::memoryDriver, 8 slots
    memorySpecs,    \* Manager::memorySpecs, 8 slots
    lockOwner,      \* holder of the Manager's Chimera::Threading::Lockable
    proc,           \* per caller: the operation in progress and its locals
    backend,        \* per handle: the range last written to the device
    mold,           \* ControlBlockFactory::mold
    block,          \* the ControlBlock a client holds (built or hand-written)
    storage,        \* the last result of ControlBlockInterpreter::getStorage
    sample,         \* the uint32_t a client passes to the event / log placeholders
    eventVal,       \* what someEventThing( sample ) returned
    logVal          \* what someLogThing( sample ) returned

mgrVars == <<initialized, capacity, params, memoryDriver, memorySpecs, lockOwner, proc, backend>>

codecVars == <<mold, block, storage>>

placeholderVars == <<sample, eventVal, logVal>>

vars == <<initialized, capacity, params, memoryDriver, memorySpecs, lockOwner, proc, backend, mold, block, storage,
          sample, eventVal, logVal>>

Slots == 0 .. (MAX_STORAGE_OPTIONS - 1)

\* param is the buffer argument of read / write, data the bytes a write
\* buffer holds, buf the bytes a read left in its buffer; calls lists what
\* the operation has called so far outside the Manager's own members
IdleProc ==
    [pc |-> "idle", op |-> NoArg, key |-> NoArg, blk |-> NoBlock, storage |-> NoStorage,
     handle |-> NoArg, numParameters |-> NoNumber, param |-> NoArg, data |-> NoArg,
     ctrlBlk |-> NoBlock, driver |-> NoArg, result |-> FALSE, out |-> NoBlock, buf |-> NoArg,
     calls |-> <<>>]

\* one call made by an operation: reserve / release of the lock, a backend's
\* read / write, the update callback
Event(call, on, address, size, data, status) ==
    [call |-> call, on |-> on, address |-> address, size |-> size, data |-> data, status |-> status]

LockEvent(call, status) == Event(call, NoArg, NoNumber, NoNumber, NoArg, status)

\* the caller's record with one more call listed
Called(p, e) == [p EXCEPT !.calls = Append(@, e)]

\* Manager::Manager and ControlBlockFactory::ControlBlockFactory
Init ==
    /\ initialized = FALSE
    /\ capacity = 0
    /\ params = [k \in Keys |-> Absent]
    /\ memoryDriver = [s \in Slots |-> NullDriver]
    /\ memorySpecs = [s \in Slots |-> NoDescriptor]
    /\ lockOwner = NoOwner
    /\ proc = [c \in Callers |-> IdleProc]
    /\ backend = [h \in Handles |-> <<>>]
    /\ mold = clear(DefaultControlBlock)
    /\ block = DefaultControlBlock
    /\ storage = NoStorage
    /\ sample = 0
    /\ eventVal = NoNumber
    /\ logVal = NoNumber

contains(k) == params[k] # Absent

\* params[ key ] of the hash map: inserts a default ControlBlock when absent
subscript(p, k) == IF p[k] = Absent THEN [p EXCEPT ![k] = <<DefaultControlBlock>>] ELSE p

\* the block stored under a key that p holds
at(p, k) == p[k][1]

\* the operation whose record is p returns: its arguments, and what it
\* called, stay visible until the next call
Finish(c, p, res) ==
    proc' = [proc EXCEPT ![c] =
                [IdleProc EXCEPT !.op = p.op, !.key = p.key, !.blk = p.blk,
                                 !.storage = p.storage, !.param = p.param, !.data = p.data,
                                 !.buf = p.buf, !.calls = p.calls, !.result = res]]

Return(c, res) == Finish(c, proc[c], res)

\* the operation starts
Begin(name, args) ==
    [[IdleProc EXCEPT !.op = name] EXCEPT
        !.key = IF "key" \in DOMAIN args THEN args.key ELSE NoArg,
        !.blk = IF "blk" \in DOMAIN args THEN args.blk ELSE NoBlock,
        !.storage = IF "storage" \in DOMAIN args THEN args.storage ELSE NoStorage,
        !.handle = IF "handle" \in DOMAIN args THEN args.handle ELSE NoArg,
        !.param = IF "param" \in DOMAIN args THEN args.param ELSE NoArg,
        !.data = IF "data" \in DOMAIN args THEN args.data ELSE NoArg,
        !.numParameters = IF "numParameters" \in DOMAIN args THEN args.numParameters ELSE NoNumber]

(***************************************************************************)
(* Manager::init.  It takes no lock; its three writes are separate steps.  *)
(***************************************************************************)
CallInit(c, E) ==
    /\ proc[c].pc = "idle"
    /\ \E n \in E.capacities :
          proc' = [proc EXCEPT ![c] = [Begin("init", [numParameters |-> n]) EXCEPT !.pc = "init_clear"]]
    /\ UNCHANGED <<initialized, capacity, params, memoryDriver, memorySpecs, lockOwner, backend>>

\* init that marks the Manager uninitialized while it rebuilds its tables
InitClear_Resets(c) ==
    /\ proc[c].pc = "init_clear"
    /\ params' = [k \in Keys |-> Absent]
    /\ capacity' = proc[c].numParameters
    /\ initialized' = FALSE
    /\ proc' = [proc EXCEPT ![c].pc = "init_fill"]
    /\ UNCHANGED <<memoryDriver, memorySpecs, lockOwner, backend>>

\* params.clear(); params.resize( numParameters );
InitClear(c) ==
    /\ proc[c].pc = "init_clear"
    /\ params' = [k \in Keys |-> Absent]
    /\ capacity' = proc[c].numParameters
    /\ proc' = [proc EXCEPT ![c].pc = "init_fill"]
    /\ UNCHANGED <<initialized, memoryDriver, memorySpecs, lockOwner, backend>>

\* memoryDriver.fill( nullptr );
InitFill(c) ==
    /\ proc[c].pc = "init_fill"
    /\ memoryDriver' = [s \in Slots |-> NullDriver]
    /\ proc' = [proc EXCEPT ![c].pc = "init_set"]
    /\ UNCHANGED <<initialized, capacity, params, memorySpecs, lockOwner, backend>>

\* initialized = true; return true;
InitSet(c) ==
    /\ proc[c].pc = "init_set"
    /\ initialized' = TRUE
    /\ Return(c, TRUE)
    /\ UNCHANGED <<capacity, params, memoryDriver, memorySpecs, lockOwner, backend>>

(***************************************************************************)
(* The calls: the conditions evaluated before reserve().                   *)
(***************************************************************************)
\* registerParameter that refuses a new key once the registry holds as many
\* keys as init pre-sized it for
Enter_Bounded(c, name, args, pre) ==
    /\ proc[c].pc = "idle"
    /\ LET full == /\ name = "registerParameter"
                   /\ ~contains(args.key)
                   /\ Cardinality({k \in Keys : contains(k)}) >= capacity
       IN  proc' = [proc EXCEPT ![c] =
                      IF pre /\ ~full THEN [Begin(name, args) EXCEPT !.pc = "reserve"]
                      ELSE [Begin(name, args) EXCEPT !.handle = NoArg, !.data = NoArg]]
    /\ UNCHANGED <<initialized, capacity, params, memoryDriver, memorySpecs, lockOwner, backend>>

\* the operation goes on to reserve() when pre holds, and returns false otherwise
Enter(c, name, args, pre) ==
    /\ proc[c].pc = "idle"
    /\ proc' = [proc EXCEPT ![c] =
                  IF pre THEN [Begin(name, args) EXCEPT !.pc = "reserve"]
                  ELSE [Begin(name, args) EXCEPT !.handle = NoArg, !.data = NoArg]]
    /\ UNCHANGED <<initialized, capacity, params, memoryDriver, memorySpecs, lockOwner, backend>>

\* registerParameter without the initialized check
CallRegisterParameter_NoInitCheck(c, E) ==
    \E k \in E.keys, b \in E.blocks :
        Enter(c, "registerParameter", [key |-> k, blk |-> b], TRUE)

CallRegisterParameter(c, E) ==
    \E k \in E.keys, b \in E.blocks :
        Enter(c, "registerParameter", [key |-> k, blk |-> b], initialized)

CallUnregisterParameter(c, E) ==
    \E k \in E.keys : Enter(c, "unregisterParameter", [key |-> k], initialized)

CallIsRegistered(c, E) ==
    \E k \in E.keys : Enter(c, "isRegistered", [key |-> k], initialized)

\* read without the params.contains( key ) test
CallRead_NoContainsCheck(c, E) ==
    \E k \in E.keys, param \in Buffers :
        Enter(c, "read", [key |-> k, param |-> param], initialized /\ param # "nullptr")

CallRead(c, E) ==
    \E k \in E.keys, param \in Buffers :
        Enter(c, "read", [key |-> k, param |-> param],
              initialized /\ param # "nullptr" /\ contains(k))

CallWrite(c, E) ==
    \E k \in E.keys, param \in Buffers, d \in E.data :
        Enter(c, "write", [key |-> k, param |-> param, data |-> IF param = "nullptr" THEN NoArg ELSE d],
              initialized /\ param # "nullptr" /\ contains(k))

CallRegisterMemoryDriver(c, E) ==
    \E s \in E.storages, h \in E.handles :
        Enter(c, "registerMemoryDriver", [storage |-> s, handle |-> h], initialized /\ s # NONE)

CallRegisterMemorySpecs(c, E) ==
    \E s \in E.storages, d \in Descriptors :
        Enter(c, "registerMemorySpecs", [storage |-> s, handle |-> d], initialized /\ s # NONE)

(***************************************************************************)
(* reserve( lockTimeout_mS ): the lock is taken when it is free; the wait  *)
(* times out only while another caller holds it.                           *)
(***************************************************************************)
ReserveOk(c) ==
    /\ proc[c].pc = "reserve"
    /\ lockOwner = NoOwner
    /\ lockOwner' = c
    /\ proc' = [proc EXCEPT ![c] = Called([proc[c] EXCEPT !.pc = "locked"], LockEvent("reserve", "OK"))]
    /\ UNCHANGED <<initialized, capacity, params, memoryDriver, memorySpecs, backend>>

\* a timed-out reserve() followed by release()
ReserveTimeout_Releases(c) ==
    /\ proc[c].pc = "reserve"
    /\ lockOwner \notin {NoOwner, c}
    /\ Finish(c, Called(proc[c], LockEvent("reserve", "TIMEOUT")), FALSE)
    /\ lockOwner' = NoOwner
    /\ UNCHANGED <<initialized, capacity, params, memoryDriver, memorySpecs, backend>>

ReserveTimeout(c) ==
    /\ proc[c].pc = "reserve"
    /\ lockOwner \notin {NoOwner, c}
    /\ Finish(c, Called(proc[c], LockEvent("reserve", "TIMEOUT")), FALSE)
    /\ UNCHANGED <<initialized, capacity, params, memoryDriver, memorySpecs, lockOwner, backend>>

\* release() that leaves the lock with its holder
release_Noop(c) == lockOwner' = lockOwner

\* release()
release(c) == lockOwner' = IF lockOwner = c THEN NoOwner ELSE lockOwner

\* the caller's record once it has called release()
Released(c) == Called(proc[c], LockEvent("release", "OK"))

(***************************************************************************)
(* The locked sections, each ending in release().                          *)
(***************************************************************************)
InLocked(c, name) == proc[c].pc = "locked" /\ proc[c].op = name

\* registerParameter that inserts but does not overwrite
LockedRegisterParameter_InsertOnly(c) ==
    /\ InLocked(c, "registerParameter")
    /\ params' = IF contains(proc[c].key) THEN params
                 ELSE [params EXCEPT ![proc[c].key] = <<proc[c].blk>>]
    /\ release(c)
    /\ Finish(c, Released(c), TRUE)
    /\ UNCHANGED <<initialized, capacity, memoryDriver, memorySpecs, backend>>

\* params[ key ] = controlBlock; release(); result = true;
LockedRegisterParameter(c) ==
    /\ InLocked(c, "registerParameter")
    /\ params' = [params EXCEPT ![proc[c].key] = <<proc[c].blk>>]
    /\ release(c)
    /\ Finish(c, Released(c), TRUE)
    /\ UNCHANGED <<initialized, capacity, memoryDriver, memorySpecs, backend>>

\* result = params.erase( key ) > 0; release();
\* unregisterParameter that returns without release()
LockedUnregisterParameter_KeepsLock(c) ==
    /\ InLocked(c, "unregisterParameter")
    /\ params' = [params EXCEPT ![proc[c].key] = Absent]
    /\ Finish(c, proc[c], contains(proc[c].key))
    /\ UNCHANGED <<initialized, capacity, memoryDriver, memorySpecs, lockOwner, backend>>

LockedUnregisterParameter(c) ==
    /\ InLocked(c, "unregisterParameter")
    /\ params' = [params EXCEPT ![proc[c].key] = Absent]
    /\ release(c)
    /\ Finish(c, Released(c), contains(proc[c].key))
    /\ UNCHANGED <<initialized, capacity, memoryDriver, memorySpecs, backend>>

\* isRegistered that never assigns its result
LockedIsRegistered_ResultUnset(c) ==
    /\ InLocked(c, "isRegistered")
    /\ release(c)
    /\ Finish(c, Released(c), FALSE)
    /\ UNCHANGED <<initialized, capacity, params, memoryDriver, memorySpecs, backend>>

\* result = params.contains( key ); release();
LockedIsRegistered(c) ==
    /\ InLocked(c, "isRegistered")
    /\ release(c)
    /\ Finish(c, Released(c), contains(proc[c].key))
    /\ UNCHANGED <<initialized, capacity, params, memoryDriver, memorySpecs, backend>>

\* memoryDriver[ static_cast<uint8_t>( storage ) ] of the 8-element array:
\* past the end it reads whatever lies behind the array
driverAt(s) == IF s \in Slots THEN {memoryDriver[s]} ELSE {NullDriver, Garbage}

\* read / write that keep the lock over the backend call
LockedIo_NoRelease(c, name) ==
    /\ InLocked(c, name)
    /\ params' = subscript(params, proc[c].key)
    /\ LET ctrlBlk == at(params', proc[c].key)
       IN  \E driver \in driverAt(getStorage(ctrlBlk)) :
              IF driver = NullDriver
              THEN release(c) /\ Finish(c, Released(c), FALSE)
              ELSE /\ UNCHANGED lockOwner
                   /\ proc' = [proc EXCEPT ![c] =
                                  [proc[c] EXCEPT !.pc = "io", !.ctrlBlk = ctrlBlk, !.driver = driver]]
    /\ UNCHANGED <<initialized, capacity, memoryDriver, memorySpecs, backend>>

\* ctrlBlk = params[ key ]; storage = getStorage( ctrlBlk );
\* driver = memoryDriver[ storage ]; release(); if ( driver ) ... else false
LockedIo(c, name) ==
    /\ InLocked(c, name)
    /\ params' = subscript(params, proc[c].key)
    /\ release(c)
    /\ LET ctrlBlk == at(params', proc[c].key)
       IN  \E driver \in driverAt(getStorage(ctrlBlk)) :
              IF driver = NullDriver
              THEN Finish(c, Released(c), FALSE)
              ELSE proc' = [proc EXCEPT ![c] =
                              [Released(c) EXCEPT !.pc = "io", !.ctrlBlk = ctrlBlk, !.driver = driver]]
    /\ UNCHANGED <<initialized, capacity, memoryDriver, memorySpecs, backend>>

LockedRead(c) == LockedIo(c, "read")

LockedWrite(c) == LockedIo(c, "write")

\* registerMemoryDriver that leaves a slot alone once a handle is bound there
LockedRegisterMemoryDriver_KeepsFirst(c) ==
    /\ InLocked(c, "registerMemoryDriver")
    /\ IF proc[c].storage \in Slots
       THEN /\ memoryDriver' = IF memoryDriver[proc[c].storage] = NullDriver
                               THEN [memoryDriver EXCEPT ![proc[c].storage] = proc[c].handle]
                               ELSE memoryDriver
            /\ UNCHANGED memorySpecs
       ELSE /\ UNCHANGED memoryDriver
            /\ memorySpecs' \in {memorySpecs, [memorySpecs EXCEPT ![0] = Garbage]}
    /\ release(c)
    /\ Finish(c, Released(c), TRUE)
    /\ UNCHANGED <<initialized, capacity, params, backend>>

\* memoryDriver[ static_cast<uint8_t>( storage ) ] = driver: past the end of
\* the array the store lands in the member that follows it, memorySpecs
LockedRegisterMemoryDriver(c) ==
    /\ InLocked(c, "registerMemoryDriver")
    /\ IF proc[c].storage \in Slots
       THEN /\ memoryDriver' = [memoryDriver EXCEPT ![proc[c].storage] = proc[c].handle]
            /\ UNCHANGED memorySpecs
       ELSE /\ UNCHANGED memoryDriver
            /\ memorySpecs' \in {memorySpecs, [memorySpecs EXCEPT ![0] = Garbage]}
    /\ release(c)
    /\ Finish(c, Released(c), TRUE)
    /\ UNCHANGED <<initialized, capacity, params, backend>>

\* registerMemorySpecs that refuses a slot with no handle bound
LockedRegisterMemorySpecs_NeedsDriver(c) ==
    /\ InLocked(c, "registerMemorySpecs")
    /\ LET bound == proc[c].storage \in Slots /\ memoryDriver[proc[c].storage] # NullDriver
       IN  /\ memorySpecs' = IF bound
                             THEN [memorySpecs EXCEPT ![proc[c].storage] = proc[c].handle]
                             ELSE memorySpecs
           /\ release(c)
           /\ Finish(c, Released(c), bound)
    /\ UNCHANGED <<initialized, capacity, params, memoryDriver, backend>>

\* memorySpecs[ static_cast<uint8_t>( storage ) ] = specs: past the end of
\* the array the store lands behind the Manager object
LockedRegisterMemorySpecs(c) ==
    /\ InLocked(c, "registerMemorySpecs")
    /\ memorySpecs' = IF proc[c].storage \in Slots
                      THEN [memorySpecs EXCEPT ![proc[c].storage] = proc[c].handle]
                      ELSE memorySpecs
    /\ release(c)
    /\ Finish(c, Released(c), TRUE)
    /\ UNCHANGED <<initialized, capacity, params, memoryDriver, backend>>

(***************************************************************************)
(* The backend call of read / write, made after release().                 *)
(***************************************************************************)
\* the bytes device h returns for the range: what was last written to it,
\* when that was this range
Stored(h, address, size) ==
    IF backend[h] # <<>> /\ backend[h][1].address = address /\ backend[h][1].size = size
    THEN backend[h][1].data
    ELSE Unwritten

\* error = driver->read( ctrlBlk.address, param, ctrlBlk.size ): the backend
\* reports OK, with the bytes in the buffer, or a failure; a call through a
\* pointer that is no handle can return either
\* read that unbinds the handle of the slot when the backend call fails
DriverRead_UnbindsOnFail(c) ==
    /\ proc[c].pc = "io"
    /\ proc[c].op = "read"
    /\ LET p == proc[c]
           b == p.ctrlBlk
       IN  \E ok \in BOOLEAN :
              LET e == Event("driver->read", p.driver, b.address, b.size, NoArg,
                             IF ok THEN "OK" ELSE "FAIL")
                  bytes == IF ~ok THEN NoArg
                           ELSE IF p.driver \in Handles THEN Stored(p.driver, b.address, b.size)
                           ELSE Unwritten
              IN  /\ Finish(c, [Called(p, e) EXCEPT !.buf = bytes], ok)
                  /\ memoryDriver' = IF ~ok /\ getStorage(b) \in Slots
                                     THEN [memoryDriver EXCEPT ![getStorage(b)] = NullDriver]
                                     ELSE memoryDriver
    /\ UNCHANGED <<initialized, capacity, params, memorySpecs, lockOwner, backend>>

DriverRead(c) ==
    /\ proc[c].pc = "io"
    /\ proc[c].op = "read"
    /\ LET p == proc[c]
           b == p.ctrlBlk
       IN  \E ok \in BOOLEAN :
              LET e == Event("driver->read", p.driver, b.address, b.size, NoArg,
                             IF ok THEN "OK" ELSE "FAIL")
                  bytes == IF ~ok THEN NoArg
                           ELSE IF p.driver \in Handles THEN Stored(p.driver, b.address, b.size)
                           ELSE Unwritten
              IN  Finish(c, [Called(p, e) EXCEPT !.buf = bytes], ok)
    /\ UNCHANGED <<initialized, capacity, params, memoryDriver, memorySpecs, lockOwner, backend>>

\* write that calls the backend a second time when the first call fails
DriverWrite_Retry(c, E) ==
    /\ proc[c].pc = "io"
    /\ proc[c].op = "write"
    /\ LET p == proc[c]
           b == p.ctrlBlk
       IN  \E ok \in BOOLEAN :
              LET e == Event("driver->write", p.driver, b.address, b.size, p.data,
                             IF ok THEN "OK" ELSE "FAIL")
              IN  /\ Finish(c, IF ok THEN Called(p, e) ELSE Called(Called(p, e), e), ok)
                  /\ backend' = IF ok /\ E.stores /\ p.driver \in Handles
                                THEN [backend EXCEPT ![p.driver] =
                                         <<[address |-> b.address, size |-> b.size, data |-> p.data]>>]
                                ELSE backend
    /\ UNCHANGED <<initialized, capacity, params, memoryDriver, memorySpecs, lockOwner>>

\* error = driver->write( ctrlBlk.address, param, ctrlBlk.size );
\* result = ( error == OK );
DriverWrite(c, E) ==
    /\ proc[c].pc = "io"
    /\ proc[c].op = "write"
    /\ LET p == proc[c]
           b == p.ctrlBlk
       IN  \E ok \in BOOLEAN :
              LET e == Event("driver->write", p.driver, b.address, b.size, p.data,
                             IF ok THEN "OK" ELSE "FAIL")
              IN  /\ Finish(c, Called(p, e), ok)
                  /\ backend' = IF ok /\ E.stores /\ p.driver \in Handles
                                THEN [backend EXCEPT ![p.driver] =
                                         <<[address |-> b.address, size |-> b.size, data |-> p.data]>>]
                                ELSE backend
    /\ UNCHANGED <<initialized, capacity, params, memoryDriver, memorySpecs, lockOwner>>

(***************************************************************************)
(* Manager::update and Manager::getControlBlock: no lock.                  *)
(***************************************************************************)
\* if ( initialized && params.contains( key ) )
CallUpdate(c, E) ==
    /\ proc[c].pc = "idle"
    /\ \E k \in E.keys :
          proc' = [proc EXCEPT ![c] =
                      IF initialized /\ contains(k)
                      THEN [Begin("update", [key |-> k]) EXCEPT !.pc = "update_copy"]
                      ELSE Begin("update", [key |-> k])]
    /\ UNCHANGED <<initialized, capacity, params, memoryDriver, memorySpecs, lockOwner, backend>>

\* update that takes the lock for its lookup and keeps it over the callback
UpdateCopy_HoldsLock(c) ==
    /\ proc[c].pc = "update_copy"
    /\ lockOwner = NoOwner
    /\ params' = subscript(params, proc[c].key)
    /\ LET ctrlBlk == at(params', proc[c].key)
       IN  IF getUpdateCallback(ctrlBlk) = NoCallback
           THEN Return(c, FALSE) /\ UNCHANGED lockOwner
           ELSE /\ proc' = [proc EXCEPT ![c].pc = "callback", ![c].ctrlBlk = ctrlBlk]
                /\ lockOwner' = c
    /\ UNCHANGED <<initialized, capacity, memoryDriver, memorySpecs, backend>>

\* ctrlBlk = params[ key ]; updateFunc = getUpdateCallback( ctrlBlk );
UpdateCopy(c) ==
    /\ proc[c].pc = "update_copy"
    /\ params' = subscript(params, proc[c].key)
    /\ LET ctrlBlk == at(params', proc[c].key)
       IN  IF getUpdateCallback(ctrlBlk) = NoCallback
           THEN Return(c, FALSE)
           ELSE proc' = [proc EXCEPT ![c].pc = "callback", ![c].ctrlBlk = ctrlBlk]
    /\ UNCHANGED <<initialized, capacity, memoryDriver, memorySpecs, lockOwner, backend>>

\* update that calls the callback a second time
UpdateCallback_Twice(c) ==
    /\ proc[c].pc = "callback"
    /\ LET updateFunc == getUpdateCallback(proc[c].ctrlBlk)
           e == Event("updateFunc", updateFunc, NoNumber, NoNumber, proc[c].key,
                      IF updateFunc = "cbTrue" THEN "OK" ELSE "FAIL")
       IN  Finish(c, Called(Called(proc[c], e), e), updateFunc = "cbTrue")
    /\ UNCHANGED <<initialized, capacity, params, memoryDriver, memorySpecs, lockOwner, backend>>

\* result = updateFunc( key );
UpdateCallback(c) ==
    /\ proc[c].pc = "callback"
    /\ LET updateFunc == getUpdateCallback(proc[c].ctrlBlk)
           e == Event("updateFunc", updateFunc, NoNumber, NoNumber, proc[c].key,
                      IF updateFunc = "cbTrue" THEN "OK" ELSE "FAIL")
       IN  Finish(c, Called(proc[c], e), updateFunc = "cbTrue")
    /\ UNCHANGED <<initialized, capacity, params, memoryDriver, memorySpecs, lockOwner, backend>>

\* getControlBlock is called; where E.lookupMissing is false the caller keeps
\* the contract and has seen the key registered
CallGetControlBlock(c, E) ==
    /\ proc[c].pc = "idle"
    /\ \E k \in E.keys :
          /\ E.lookupMissing \/ contains(k)
          /\ proc' = [proc EXCEPT ![c] = [Begin("getControlBlock", [key |-> k]) EXCEPT !.pc = "lookup"]]
    /\ UNCHANGED <<initialized, capacity, params, memoryDriver, memorySpecs, lockOwner, backend>>

\* return params[ key ];
GetControlBlock(c) ==
    /\ proc[c].pc = "lookup"
    /\ params' = subscript(params, proc[c].key)
    /\ proc' = [proc EXCEPT ![c] =
                  [IdleProc EXCEPT !.op = proc[c].op, !.key = proc[c].key,
                                   !.out = at(params', proc[c].key)]]
    /\ UNCHANGED <<initialized, capacity, memoryDriver, memorySpecs, lockOwner, backend>>

(***************************************************************************)
(* A client of the factory and the interpreter.                            *)
(***************************************************************************)
FactorySizes == {4, SizeMax}

FactoryAddresses == {0, 16}

FactoryClear ==
    /\ mold' = clear(mold)
    /\ UNCHANGED <<block, storage>>

FactorySetSize ==
    /\ \E s \in FactorySizes : mold' = setSize(mold, s)
    /\ UNCHANGED <<block, storage>>

FactorySetAddress ==
    /\ \E a \in FactoryAddresses : mold' = setAddress(mold, a)
    /\ UNCHANGED <<block, storage>>

\* any value of the uint8_t enum can be passed
FactorySetStorage ==
    /\ \E type \in StorageTypes \cup {OutOfRange} : mold' = setStorage(mold, type)
    /\ UNCHANGED <<block, storage>>

FactorySetUpdateCallback ==
    /\ \E cb \in Callbacks \cup {NoCallback} : mold' = setUpdateCallback(mold, cb)
    /\ UNCHANGED <<block, storage>>

\* build that hands the mold over and leaves the factory cleared
FactoryBuild_Moves ==
    /\ block' = build(mold)
    /\ storage' = NoStorage
    /\ mold' = clear(mold)

FactoryBuild ==
    /\ block' = build(mold)
    /\ storage' = NoStorage
    /\ UNCHANGED mold

\* ControlBlock is a plain struct: a client can write any config word
WriteConfig ==
    /\ \E w \in Words : block' = [DefaultControlBlock EXCEPT !.config = w]
    /\ storage' = NoStorage
    /\ UNCHANGED mold

InterpretStorage ==
    /\ storage' = getStorage(block)
    /\ UNCHANGED <<mold, block>>

(***************************************************************************)
(* Specifications.                                                         *)
(***************************************************************************)
Step(c, E) ==
    \/ CallInit(c, E)
    \/ InitClear(c)
    \/ InitFill(c)
    \/ InitSet(c)
    \/ CallRegisterParameter(c, E)
    \/ CallUnregisterParameter(c, E)
    \/ CallIsRegistered(c, E)
    \/ CallRead(c, E)
    \/ CallWrite(c, E)
    \/ CallRegisterMemoryDriver(c, E)
    \/ CallRegisterMemorySpecs(c, E)
    \/ ReserveOk(c)
    \/ LockedRegisterParameter(c)
    \/ LockedUnregisterParameter(c)
    \/ LockedIsRegistered(c)
    \/ LockedRead(c)
    \/ LockedWrite(c)
    \/ LockedRegisterMemoryDriver(c)
    \/ LockedRegisterMemorySpecs(c)
    \/ DriverRead(c)
    \/ DriverWrite(c, E)
    \/ CallUpdate(c, E)
    \/ UpdateCopy(c)
    \/ UpdateCallback(c)
    \/ CallGetControlBlock(c, E)
    \/ GetControlBlock(c)

\* two callers
Next ==
    \E c \in Callers :
        /\ Step(c, ConcEnv) \/ ReserveTimeout(c)
        /\ UNCHANGED <<codecVars, placeholderVars>>

Spec == Init /\ [][Next]_vars

\* one caller: the lock is never contended
NextSeq ==
    /\ Step("c1", SeqEnv)
    /\ UNCHANGED <<codecVars, placeholderVars>>

SpecSeq == Init /\ [][NextSeq]_vars

\* the factory and the interpreter alone
NextCodec ==
    /\ \/ FactoryClear
       \/ FactorySetSize
       \/ FactorySetAddress
       \/ FactorySetStorage
       \/ FactorySetUpdateCallback
       \/ FactoryBuild
       \/ WriteConfig
       \/ InterpretStorage
    /\ UNCHANGED <<mgrVars, placeholderVars>>

SpecCodec == Init /\ [][NextCodec]_vars

\* one caller that registers blocks and backends and moves bytes
NextIo ==
    /\ \/ CallInit("c1", IoEnv)
       \/ InitClear("c1")
       \/ InitFill("c1")
       \/ InitSet("c1")
       \/ CallRegisterParameter("c1", IoEnv)
       \/ CallRegisterMemoryDriver("c1", IoEnv)
       \/ CallRead("c1", IoEnv)
       \/ CallWrite("c1", IoEnv)
       \/ ReserveOk("c1")
       \/ LockedRegisterParameter("c1")
       \/ LockedRegisterMemoryDriver("c1")
       \/ LockedRead("c1")
       \/ LockedWrite("c1")
       \/ DriverRead("c1")
       \/ DriverWrite("c1", IoEnv)
    /\ UNCHANGED <<codecVars, placeholderVars>>

SpecIo == Init /\ [][NextIo]_vars

\* registerParameter is called with the block the client holds
CallRegisterBuilt(c, E) ==
    \E k \in E.keys : Enter(c, "registerParameter", [key |-> k, blk |-> block], initialized)

\* a client that builds blocks, registers them and goes on using the factory
NextSnapshot ==
    \/ /\ \/ CallInit("c1", IoEnv)
          \/ InitClear("c1")
          \/ InitFill("c1")
          \/ InitSet("c1")
          \/ CallRegisterBuilt("c1", IoEnv)
          \/ ReserveOk("c1")
          \/ LockedRegisterParameter("c1")
       /\ UNCHANGED <<codecVars, placeholderVars>>
    \/ /\ \/ FactoryClear
          \/ FactorySetSize
          \/ FactorySetUpdateCallback
          \/ FactoryBuild
       /\ UNCHANGED <<mgrVars, placeholderVars>>

SpecSnapshot == Init /\ [][NextSnapshot]_vars

\* a client that configures the factory and writes config words of its own
NextFactory ==
    /\ \/ FactoryClear
       \/ FactorySetSize
       \/ FactorySetAddress
       \/ FactorySetStorage
       \/ FactorySetUpdateCallback
       \/ WriteConfig
    /\ UNCHANGED <<mgrVars, placeholderVars>>

SpecFactory == Init /\ [][NextFactory]_vars

(***************************************************************************)
(* Two callers under a scheduler that runs every thread: an operation in   *)
(* progress takes its next step, reserve() returns OK or TIMEOUT within    *)
(* its timeout, and backend calls and callbacks return.                    *)
(***************************************************************************)
LiveEnv == [keys |-> {"k1"}, blocks |-> {BlkSram1}, storages |-> {EXTERNAL_SRAM1},
            handles |-> {"h1"}, capacities |-> {0}, lookupMissing |-> FALSE,
            data |-> {"x"}, stores |-> FALSE]

\* the next step of the operation caller c is in
Progress(c) ==
    /\ proc[c].pc # "idle"
    /\ Step(c, LiveEnv) \/ ReserveTimeout(c)
    /\ UNCHANGED <<codecVars, placeholderVars>>

NextLive ==
    \E c \in Callers :
        /\ Step(c, LiveEnv) \/ ReserveTimeout(c)
        /\ UNCHANGED <<codecVars, placeholderVars>>

SpecLive == Init /\ [][NextLive]_vars /\ \A c \in Callers : WF_vars(Progress(c))

(***************************************************************************)
(* The event and log placeholders (event.cpp, log.cpp).                    *)
(***************************************************************************)
UIntMax == 2 ^ UIntBits - 1

UInts == 0 .. UIntMax

\* someEventThing with the threshold itself on the low side
someEventThing_Inclusive(x) ==
    LET retVal == 500
    IN  IF x <= UIntMax \div 2 THEN 100 ELSE 200

\* int retVal = 500; if ( x < max() / 2 ) retVal = 100; else retVal = 200;
someEventThing(x) ==
    LET retVal == 500
    IN  IF x < UIntMax \div 2 THEN 100 ELSE 200

someLogThing(x) ==
    LET retVal == 500
    IN  IF x < UIntMax \div 2 THEN 100 ELSE 200

\* a client picks the argument of its next calls
PickSample ==
    /\ sample' \in UInts
    /\ eventVal' = NoNumber
    /\ logVal' = NoNumber

CallSomeEventThing ==
    /\ eventVal' = someEventThing(sample)
    /\ UNCHANGED <<sample, logVal>>

CallSomeLogThing ==
    /\ logVal' = someLogThing(sample)
    /\ UNCHANGED <<sample, eventVal>>

NextPlaceholder ==
    /\ \/ PickSample
       \/ CallSomeEventThing
       \/ CallSomeLogThing
    /\ UNCHANGED <<mgrVars, codecVars>>

SpecPlaceholder == Init /\ [][NextPlaceholder]_vars

(***************************************************************************)
(* Steps of an operation, as seen from outside.                            *)
(***************************************************************************)
\* caller c starts an operation in this step (and may return from it at once)
Calls(c) == proc[c].pc = "idle" /\ proc'[c] # proc[c]

\* caller c returns in this step from an operation it started earlier
Completes(c, name) == proc[c].op = name /\ proc[c].pc # "idle" /\ proc'[c].pc = "idle"

\* the locked section of registerParameter(k, .) / unregisterParameter(k) runs
Registers(c, k) == InLocked(c, "registerParameter") /\ proc[c].key = k /\ proc'[c].pc = "idle"

Unregisters(c, k) == InLocked(c, "unregisterParameter") /\ proc[c].key = k /\ proc'[c].pc = "idle"

\* the first write of init runs
Clears(c) == proc[c].pc = "init_clear" /\ proc'[c].pc = "init_fill"

(***************************************************************************)
(* C1                                                                      *)
(***************************************************************************)
\* C1: with one caller in the Ready state, a registerParameter(k, b) that
\* returns success leaves k in the registry, k stays there through every step
\* that is not unregisterParameter(k) or init, and isRegistered(k) returns true
\* whenever k is in the registry: so isRegistered(k) returns true after a
\* successful registerParameter(k, b) with no unregisterParameter(k) or init
\* in between.
C1_RegisterThenIsRegistered ==
    [][\A c \in Callers :
          /\ (Completes(c, "registerParameter") /\ proc'[c].result)
                => params'[proc[c].key] # Absent
          /\ \A k \in Keys :
                (contains(k) /\ params'[k] = Absent)
                   => \E d \in Callers : Unregisters(d, k) \/ Clears(d)
          /\ (initialized /\ Completes(c, "isRegistered") /\ contains(proc[c].key))
                => proc'[c].result = TRUE]_vars

C1_Witness ==
    /\ initialized
    /\ proc["c1"].pc = "idle"
    /\ proc["c1"].op = "isRegistered"
    /\ proc["c1"].result = TRUE
    /\ contains(proc["c1"].key)

(***************************************************************************)
(* C3                                                                      *)
(***************************************************************************)
\* C3: a successful registerParameter(k, b2) leaves exactly one entry under k,
\* equal to b2 in every field, whatever was stored under k before; a stored
\* entry changes only by registerParameter(k, .), unregisterParameter(k) or
\* init; and getControlBlock(k) on a registered key returns the stored block
\* without changing the registry.
C3_ReRegisterOverwrites ==
    [][\A c \in Callers :
          /\ (Completes(c, "registerParameter") /\ proc'[c].result)
                => params'[proc[c].key] = <<proc[c].blk>>
          /\ \A k \in Keys :
                (contains(k) /\ params'[k] # params[k])
                   => \E d \in Callers : Registers(d, k) \/ Unregisters(d, k) \/ Clears(d)
          /\ (Completes(c, "getControlBlock") /\ contains(proc[c].key))
                => /\ proc'[c].out = at(params, proc[c].key)
                   /\ params' = params
          /\ \A k \in Keys : Len(params'[k]) <= 1]_vars

\* two blocks that differ in size, address, config and callback
DifferInEveryField(b1, b2) ==
    /\ b1.size # b2.size
    /\ b1.address # b2.address
    /\ b1.config # b2.config
    /\ b1.update # b2.update

\* c1 registered b1 under k, c2 registered b2 over it and read it back
C3_Witness ==
    /\ proc["c1"].pc = "idle" /\ proc["c1"].op = "registerParameter" /\ proc["c1"].result
    /\ proc["c2"].pc = "idle" /\ proc["c2"].op = "getControlBlock"
    /\ proc["c2"].key = proc["c1"].key
    /\ contains(proc["c2"].key)
    /\ proc["c2"].out = at(params, proc["c2"].key)
    /\ DifferInEveryField(proc["c1"].blk, proc["c2"].out)

(***************************************************************************)
(* C4                                                                      *)
(***************************************************************************)
GuardedOps ==
    {"registerParameter", "unregisterParameter", "isRegistered", "read", "write", "update",
     "registerMemoryDriver", "registerMemorySpecs"}

\* the call returns failure at once: no lock, no backend, no callback, and the
\* registry and the Driver Table as they were
FailsUntouched(c) ==
    /\ proc'[c].pc = "idle"
    /\ proc'[c].result = FALSE
    /\ lockOwner' = lockOwner
    /\ params' = params
    /\ memoryDriver' = memoryDriver
    /\ memorySpecs' = memorySpecs

\* C4 as claimed: before init, every operation except init, getControlBlock
\* included, fails and leaves the registry and the Driver Table unchanged.
C4_Original ==
    [][\A c \in Callers :
          /\ (~initialized /\ Calls(c) /\ proc'[c].op \in GuardedOps) => FailsUntouched(c)
          /\ (~initialized /\ Completes(c, "getControlBlock")) => FailsUntouched(c)]_vars

\* C4: before init, each of registerParameter, unregisterParameter,
\* isRegistered, read, write, update, registerMemoryDriver and
\* registerMemorySpecs reports failure without taking the lock, calling a
\* backend or callback, or changing the registry or the Driver Table;
\* getControlBlock makes no such check: it returns a block, and inserts a
\* default block under the key when the key is missing.
C4_Amended ==
    [][\A c \in Callers :
          /\ (~initialized /\ Calls(c) /\ proc'[c].op \in GuardedOps) => FailsUntouched(c)
          /\ (~initialized /\ Completes(c, "getControlBlock"))
                => /\ params' = subscript(params, proc[c].key)
                   /\ proc'[c].out = at(params', proc[c].key)]_vars

\* update has failed before init on a key that getControlBlock had inserted
C4_Witness ==
    /\ ~initialized
    /\ proc["c1"].pc = "idle"
    /\ proc["c1"].op = "update"
    /\ ~proc["c1"].result
    /\ contains(proc["c1"].key)

(***************************************************************************)
(* C2                                                                      *)
(***************************************************************************)
\* caller c returns in this step, at once or from an operation in progress
Returns(c) == proc'[c].pc = "idle" /\ proc'[c] # proc[c]

\* some caller is inside init
InInit == \E d \in Callers : proc[d].op = "init" /\ proc[d].pc # "idle"

\* C2: in the Ready state unregisterParameter(k) returns true exactly when it
\* took the lock and k was registered; k is then absent, and an absent key
\* becomes registered only by a successful registerParameter(k, .); on an
\* absent key it returns false and leaves the registry unchanged.  (An
\* insertion made by getControlBlock, or while an init is in progress, is not
\* held against the claim here.)
C2_Unregister ==
    [][\A c \in Callers :
          /\ (initialized /\ Completes(c, "unregisterParameter"))
                => /\ proc'[c].result = (InLocked(c, "unregisterParameter") /\ contains(proc[c].key))
                   /\ proc'[c].result => params'[proc[c].key] = Absent
                   /\ ~contains(proc[c].key) => params' = params
          /\ \A k \in Keys :
                (initialized /\ ~InInit /\ ~contains(k) /\ params'[k] # Absent)
                   => \E d \in Callers :
                         \/ Registers(d, k)
                         \/ Completes(d, "getControlBlock")]_vars

(***************************************************************************)
(* C5, C6                                                                  *)
(***************************************************************************)
\* C5: from any state, with the lock free or held by another caller, init
\* returns true and when it returns no key is registered.
C5_InitDestructive ==
    [][\A c \in Callers :
          Completes(c, "init")
             => /\ proc'[c].result = TRUE
                /\ \A k \in Keys : params'[k] = Absent]_vars

\* C6: when init returns, each of the 8 Driver Table slots has no backend
\* handle and holds no descriptor that registerMemorySpecs stored.
C6_InitClearsDriverTable ==
    [][\A c \in Callers :
          Completes(c, "init")
             => \A s \in Slots : memoryDriver'[s] = NullDriver /\ memorySpecs'[s] \notin Descriptors]_vars

(***************************************************************************)
(* C7, C8                                                                  *)
(***************************************************************************)
\* C7: for each of the 8 storage locations L and every factory state,
\* getStorage of the block built after setStorage(L) is L.
C7_RoundTrip ==
    \A L \in ValidLocations : getStorage(build(setStorage(mold, L))) = L

\* the Location constant of a storage location
LocationCode(L) ==
    CASE L = INTERNAL_SRAM   -> Loc_INTERNAL_SRAM
      [] L = INTERNAL_FLASH  -> Loc_INTERNAL_FLASH
      [] L = EXTERNAL_FLASH0 -> Loc_EXTERNAL_FLASH0
      [] L = EXTERNAL_FLASH1 -> Loc_EXTERNAL_FLASH1
      [] L = EXTERNAL_FLASH2 -> Loc_EXTERNAL_FLASH2
      [] L = EXTERNAL_SRAM0  -> Loc_EXTERNAL_SRAM0
      [] L = EXTERNAL_SRAM1  -> Loc_EXTERNAL_SRAM1
      [] L = EXTERNAL_SRAM2  -> Loc_EXTERNAL_SRAM2

\* the 3-bit field setStorage(L) leaves in a config word
WrittenPattern(L) == setStorage(DefaultControlBlock, L).config % 8

\* C8: for every config word, the result of getStorage is one of the 9
\* enumerated values, is the same for every word with the same low 3 bits, is
\* a valid location L only if those bits are the pattern setStorage(L) writes,
\* and is the 'none' sentinel for every pattern that is the code of no valid
\* location.
C8_DecodeExact ==
    storage # NoStorage =>
        LET setBits == block.config % 8
        IN  /\ storage \in StorageTypes
            /\ \A w \in Words : w % 8 = setBits => getStorage([block EXCEPT !.config = w]) = storage
            /\ storage \in ValidLocations => setBits = WrittenPattern(storage)
            /\ (\A L \in ValidLocations : setBits # WrittenPattern(L)) => storage = NONE
            /\ (\A L \in ValidLocations : setBits # LocationCode(L)) => storage = NONE

\* a word with reserved bits set that decodes to a valid location, after one
\* whose low bits match no code
C8_Witness ==
    /\ storage = EXTERNAL_FLASH1
    /\ block.config > MEM_LOC_MSK
    /\ getStorage([block EXCEPT !.config = block.config - Loc_EXTERNAL_FLASH1]) = NONE

(***************************************************************************)
(* C9, C10                                                                 *)
(***************************************************************************)
\* C9: the index with which a locked section accesses the 8-slot Driver Table
\* is in 0..7: in read and write for whatever the stored block decodes to, in
\* registerMemoryDriver and registerMemorySpecs for every enumerated
\* StorageType they are called with.
C9_IndexValidated ==
    \A c \in Callers :
        proc[c].pc = "locked" =>
            /\ proc[c].op \in {"read", "write"}
                  => getStorage(at(subscript(params, proc[c].key), proc[c].key)) \in Slots
            /\ (proc[c].op \in {"registerMemoryDriver", "registerMemorySpecs"}
                   /\ proc[c].storage \in StorageTypes)
                  => proc[c].storage \in Slots

\* C10: in the Ready state registerMemoryDriver and registerMemorySpecs called
\* with the 'none' sentinel or any index >= 8 return failure and leave every
\* handle and descriptor unchanged.
C10_RejectsInvalidSlot ==
    [][\A c \in Callers :
          (/\ initialized
           /\ Returns(c)
           /\ proc'[c].op \in {"registerMemoryDriver", "registerMemorySpecs"}
           /\ proc'[c].storage >= MAX_MEMORY_LOCATIONS)
             => /\ proc'[c].result = FALSE
                /\ memoryDriver' = memoryDriver
                /\ memorySpecs' = memorySpecs]_vars

(***************************************************************************)
(* C11, C12, C13                                                           *)
(***************************************************************************)
\* slot s of the Driver Table holds no backend handle; the sentinel is no slot
Unbound(s) == s \notin Slots \/ memoryDriver[s] = NullDriver

BackendCalls == {"driver->read", "driver->write"}

\* the calls of the given names that the caller's record lists
CallsOf(p, names) == {i \in 1 .. Len(p.calls) : p.calls[i].call \in names}

TablesUnchanged ==
    /\ params' = params
    /\ memoryDriver' = memoryDriver
    /\ memorySpecs' = memorySpecs

\* C11: when the locked section of read(k, buf) or write(k, buf) runs for a
\* registered key whose block decodes to a slot with no backend handle, or to
\* the 'none' sentinel, the call returns failure there and then, has called no
\* backend, and leaves the registry and the Driver Table unchanged.
C11_NoDriverBound ==
    [][\A c \in Callers :
          (/\ proc[c].pc = "locked"
           /\ proc[c].op \in {"read", "write"}
           /\ contains(proc[c].key)
           /\ Unbound(getStorage(at(params, proc[c].key)))
           /\ proc'[c] # proc[c])
             => /\ proc'[c].pc = "idle"
                /\ proc'[c].result = FALSE
                /\ CallsOf(proc'[c], BackendCalls) = {}
                /\ TablesUnchanged]_vars

\* the location field of block b is what setStorage(L) writes
EncodesLocation(b, L) == b.config = setStorage(b, L).config

\* C12: for every valid location L, with k registered under a block whose
\* config is the encoding of L and handle D bound at slot L, the locked section
\* of write(k, data) / read(k, buf) picks D and the stored block; the backend
\* call is made on D with the block's address and size; the call succeeds
\* when the backend reports OK; a successful write leaves data in D, and a
\* successful read returns the bytes last written to that range of D.
C12_RoutedRoundTrip ==
    [][\A c \in Callers, L \in ValidLocations :
          LET k == proc[c].key
          IN  (/\ proc[c].op \in {"read", "write"}
               /\ proc[c].pc \in {"locked", "io"}
               /\ contains(k)
               /\ EncodesLocation(at(params, k), L)
               /\ memoryDriver[L] \in Handles
               /\ proc'[c] # proc[c])
                 => LET b == at(params, k)
                        D == memoryDriver[L]
                        e == proc'[c].calls[Len(proc'[c].calls)]
                    IN  /\ proc[c].pc = "locked"
                              => /\ proc'[c].pc = "io"
                                 /\ proc'[c].driver = D
                                 /\ proc'[c].ctrlBlk = b
                        /\ proc[c].pc = "io"
                              => /\ e.call \in BackendCalls
                                 /\ e.on = D
                                 /\ e.address = b.address
                                 /\ e.size = b.size
                                 /\ proc'[c].result = (e.status = "OK")
                                 /\ (proc[c].op = "write" /\ proc'[c].result)
                                       => /\ e.data = proc[c].data
                                          /\ Stored(D, b.address, b.size)' = proc[c].data
                                 /\ (proc[c].op = "read" /\ proc'[c].result)
                                       => proc'[c].buf = Stored(D, b.address, b.size)]_vars

\* caller c returns in this step, at once or from an operation in progress
ReturnsFrom(c, names) == proc'[c].pc = "idle" /\ proc'[c] # proc[c] /\ proc'[c].op \in names

\* C13: with one caller, read and write each return success exactly when the
\* Manager is Ready, the buffer is not null, the key is registered, the lock
\* was acquired, a backend handle is bound at the slot the block decodes to,
\* and the one backend call made reported OK.
C13_SuccessIff ==
    [][\A c \in Callers :
          ReturnsFrom(c, {"read", "write"})
             => LET p == proc'[c]
                    k == p.key
                IN  p.result
                       = (/\ initialized
                          /\ p.param # "nullptr"
                          /\ contains(k)
                          /\ \E i \in CallsOf(p, {"reserve"}) : p.calls[i].status = "OK"
                          /\ ~Unbound(getStorage(at(params, k)))
                          /\ \E i \in CallsOf(p, BackendCalls) : p.calls[i].status = "OK")]_vars

(***************************************************************************)
(* C14, C15                                                                *)
(***************************************************************************)
\* C14: with one caller, for a key that is not registered, isRegistered
\* returns false and leaves the registry unchanged, and read and write return
\* false at once: no lock taken, no backend called, the registry unchanged and
\* the key still not registered.
C14_KeyNotFound ==
    [][\A c \in Callers :
          /\ (ReturnsFrom(c, {"isRegistered"}) /\ ~contains(proc'[c].key))
                => /\ proc'[c].result = FALSE
                   /\ TablesUnchanged
          /\ (ReturnsFrom(c, {"read", "write"}) /\ ~contains(proc'[c].key))
                => /\ proc[c].pc = "idle"
                   /\ proc'[c].result = FALSE
                   /\ proc'[c].calls = <<>>
                   /\ lockOwner' = lockOwner
                   /\ TablesUnchanged
                   /\ params'[proc'[c].key] = Absent]_vars

\* read with a buffer has failed, in the Ready state, on a key that is not registered
C14_Witness ==
    /\ initialized
    /\ proc["c1"].pc = "idle"
    /\ proc["c1"].op = "read"
    /\ proc["c1"].param = "buf"
    /\ ~proc["c1"].result
    /\ proc["c1"].calls = <<>>
    /\ ~contains(proc["c1"].key)
    /\ \E k \in Keys : contains(k)

\* C15: with one caller in the Ready state, update(k) on a registered key goes
\* on to look the block up; when the stored block carries a callback, update
\* returns having called exactly that callback, once, with k, and nothing
\* else, and its result is the callback's; when it carries none, update
\* returns false having called nothing; update never picks a driver and
\* leaves the registry and the Driver Table unchanged.
C15_Update ==
    [][\A c \in Callers :
          /\ (initialized /\ Calls(c) /\ proc'[c].op = "update" /\ contains(proc'[c].key))
                => proc'[c].pc = "update_copy"
          /\ (initialized /\ Completes(c, "update") /\ contains(proc[c].key))
                => LET updateFunc == getUpdateCallback(at(params, proc[c].key))
                       calls == proc'[c].calls
                   IN  /\ updateFunc # NoCallback
                             => /\ Len(calls) = 1
                                /\ calls[1].call = "updateFunc"
                                /\ calls[1].on = updateFunc
                                /\ calls[1].data = proc[c].key
                                /\ proc'[c].result = (updateFunc = "cbTrue")
                       /\ updateFunc = NoCallback
                             => /\ calls = <<>>
                                /\ proc'[c].result = FALSE
          /\ proc'[c].op = "update"
                => /\ proc'[c].driver = NoArg
                   /\ proc'[c] # proc[c] => TablesUnchanged /\ lockOwner' = lockOwner]_vars

\* update has returned true from a callback that ran once
C15_Witness ==
    /\ initialized
    /\ proc["c1"].pc = "idle"
    /\ proc["c1"].op = "update"
    /\ proc["c1"].result
    /\ Len(proc["c1"].calls) = 1
    /\ proc["c1"].calls[1].on = "cbTrue"
    /\ contains(proc["c1"].key)

(***************************************************************************)
(* C16, C17, C18                                                           *)
(***************************************************************************)
\* caller c is at a statement that reads or writes params, memoryDriver or
\* memorySpecs
Touches(c) == proc[c].pc \in {"init_clear", "init_fill", "locked", "update_copy", "lookup"}

\* C16: in every reachable state a caller that is at an access to the registry
\* or the Driver Table holds the Manager's lock.
C16_AccessUnderLock ==
    \A c \in Callers : Touches(c) => lockOwner = c

\* C17: while a backend read or write is in progress for a caller, that caller
\* does not hold the lock: it has reserved and released it, in that order,
\* and made no other call.
C17_ReleasedBeforeIo ==
    \A c \in Callers :
        proc[c].pc = "io"
           => /\ lockOwner # c
              /\ proc[c].calls = <<LockEvent("reserve", "OK"), LockEvent("release", "OK")>>

\* a backend call of c1 is in progress while c2 is inside a locked section
C17_Witness ==
    /\ proc["c1"].pc = "io"
    /\ proc["c2"].pc = "locked"
    /\ lockOwner = "c2"

LockGuardedOps ==
    {"registerParameter", "unregisterParameter", "isRegistered", "read", "write",
     "registerMemoryDriver", "registerMemorySpecs"}

\* C18: an operation that waits for the lock and does not get it returns
\* false in that step, having called reserve once and neither release nor a
\* backend; the lock stays with its holder, and the registry, the Driver Table
\* and the backends are as they were.
C18_TimeoutAborts ==
    [][\A c \in Callers :
          (proc[c].pc = "reserve" /\ proc'[c].pc # "locked" /\ proc'[c] # proc[c])
             => /\ proc[c].op \in LockGuardedOps
                /\ proc'[c].pc = "idle"
                /\ proc'[c].result = FALSE
                /\ proc'[c].calls = <<LockEvent("reserve", "TIMEOUT")>>
                /\ lockOwner' = lockOwner
                /\ lockOwner # NoOwner
                /\ TablesUnchanged
                /\ backend' = backend]_vars

\* c1 has timed out on the lock that c2 still holds
C18_Witness ==
    /\ proc["c1"].pc = "idle"
    /\ proc["c1"].op \in LockGuardedOps
    /\ ~proc["c1"].result
    /\ proc["c1"].calls = <<LockEvent("reserve", "TIMEOUT")>>
    /\ lockOwner = "c2"
    /\ proc["c2"].pc = "locked"

(***************************************************************************)
(* C19, C20                                                                *)
(***************************************************************************)
\* C19: the step in which a caller returns false from init or from one of the
\* eight guarded operations changes neither the registry nor the Driver Table.
C19_NoPartialSuccess ==
    [][\A c \in Callers :
          (ReturnsFrom(c, GuardedOps \cup {"init"}) /\ ~proc'[c].result) => TablesUnchanged]_vars

\* C20: a key enters the registry only in the locked section of a
\* registerParameter on that key, and leaves it only in the locked section of
\* an unregisterParameter on that key or in the clear of an init.
C20_Lifecycle ==
    [][\A k \in Keys :
          /\ (~contains(k) /\ params'[k] # Absent) => \E d \in Callers : Registers(d, k)
          /\ (contains(k) /\ params'[k] = Absent)
                => \E d \in Callers : Unregisters(d, k) \/ Clears(d)]_vars

(***************************************************************************)
(* C21, C22                                                                *)
(***************************************************************************)
\* C21: the block stored under a key is put there only by the locked section
\* of a registerParameter on that key, and is then the block that call was
\* given: no other step stores, changes or default-fills an entry.
C21_StoredIsRegistered ==
    [][\A k \in Keys :
          (params'[k] # params[k] /\ params'[k] # Absent)
             => \E d \in Callers : Registers(d, k) /\ params'[k] = <<proc[d].blk>>]_vars

\* the keys in the registry
Registered == {k \in Keys : contains(k)}

Fills(c) == proc[c].pc = "init_fill" /\ proc'[c].pc = "init_set"

\* the locked section of registerMemoryDriver(s, .) runs
Binds(c, s) == InLocked(c, "registerMemoryDriver") /\ proc[c].storage = s /\ proc'[c].pc = "idle"

C24_SpecsIndependent ==
    [][\A c \in Callers :
          /\ (/\ initialized
              /\ Calls(c)
              /\ proc'[c].op = "registerMemorySpecs"
              /\ proc'[c].storage \in ValidLocations)
                => proc'[c].pc = "reserve"
          /\ (InLocked(c, "registerMemorySpecs") /\ proc'[c] # proc[c]
                 /\ proc[c].storage \in ValidLocations)
                => /\ proc'[c].pc = "idle"
                   /\ proc'[c].result = TRUE
                   /\ memorySpecs' = [memorySpecs EXCEPT ![proc[c].storage] = proc[c].handle]
                   /\ memoryDriver' = memoryDriver
          /\ (Completes(c, "registerMemoryDriver") /\ proc[c].storage \in ValidLocations)
                => memorySpecs' = memorySpecs]_vars

\* a descriptor has been stored at a slot with no handle, while another slot
\* has a handle
C24_Witness ==
    /\ proc["c1"].pc = "idle"
    /\ proc["c1"].op = "registerMemorySpecs"
    /\ proc["c1"].result
    /\ proc["c1"].storage \in ValidLocations
    /\ memoryDriver[proc["c1"].storage] = NullDriver
    /\ memorySpecs[proc["c1"].storage] \in Descriptors
    /\ \E s \in Slots : memoryDriver[s] \in Handles /\ memorySpecs[s] = NoDescriptor

(***************************************************************************)
(* C25, C26, C27                                                           *)
(***************************************************************************)
\* C25: an operation calls reserve at most once and a backend at most once; a
\* call that timed out on the lock has called no backend; a read / write that
\* finds a handle at the decoded slot goes on to the backend call, and
\* returns from it having called the backend exactly once, with that call's
\* status as its result.
C25_NoRetry ==
    [][\A c \in Callers :
          LET p == proc'[c]
          IN  /\ Cardinality(CallsOf(p, {"reserve"})) <= 1
              /\ Cardinality(CallsOf(p, BackendCalls)) <= 1
              /\ (proc[c].pc = "reserve" /\ p.pc = "idle")
                    => /\ Len(p.calls) = 1
                       /\ p.result = FALSE
              /\ ((InLocked(c, "read") \/ InLocked(c, "write")) /\ p.pc = "idle")
                    => /\ Unbound(getStorage(at(params', proc[c].key)))
                       /\ CallsOf(p, BackendCalls) = {}
              /\ (proc[c].pc = "io" /\ p.pc = "idle")
                    => /\ Cardinality(CallsOf(p, BackendCalls)) = 1
                       /\ p.result = (p.calls[Len(p.calls)].status = "OK")]_vars

\* a write has returned false after one backend call that failed
C25_Witness ==
    /\ proc["c1"].pc = "idle"
    /\ proc["c1"].op = "write"
    /\ ~proc["c1"].result
    /\ Len(proc["c1"].calls) = 3
    /\ proc["c1"].calls[3].call = "driver->write"
    /\ proc["c1"].calls[3].on \in Handles
    /\ proc["c1"].calls[3].status = "FAIL"

\* C26: a caller that is in update, or has returned from it, does not hold
\* the lock and has called neither reserve nor release; its lookup and its
\* callback can run whoever holds the lock.
C26_UpdateUnlocked ==
    \A c \in Callers :
        proc[c].op = "update"
           => /\ lockOwner # c
              /\ CallsOf(proc[c], {"reserve", "release"}) = {}
              /\ proc[c].pc = "update_copy" => ENABLED UpdateCopy(c)
              /\ proc[c].pc = "callback" => ENABLED UpdateCallback(c)

\* the callback of c1's update is running while c2 is in a locked section
C26_Witness ==
    /\ proc["c1"].op = "update"
    /\ proc["c1"].pc = "callback"
    /\ proc["c2"].pc = "locked"
    /\ lockOwner = "c2"

\* C27: a backend call in progress is for a block that decodes to one of the
\* 8 slots, on the handle that slot held when the caller looked it up under
\* the lock; the handle and the block stay the same until the call returns,
\* whatever happens to the slot meanwhile.
C27_IoAtDecodedSlot ==
    [][\A c \in Callers :
          proc'[c].pc = "io"
             => LET s == getStorage(proc'[c].ctrlBlk)
                IN  /\ s \in Slots
                    /\ proc[c].pc = "locked"
                          => /\ lockOwner = c
                             /\ proc'[c].driver = memoryDriver[s]
                    /\ proc[c].pc = "io"
                          => /\ proc'[c].driver = proc[c].driver
                             /\ proc'[c].ctrlBlk = proc[c].ctrlBlk]_vars

(***************************************************************************)
(* C28, C29, C30                                                           *)
(***************************************************************************)
\* the bits of a config word outside the location field
ReservedBits(w) == w \div (MEM_LOC_MSK + 1)

\* any value of the uint8_t enum that the factory is called with
AnyStorage == StorageTypes \cup {OutOfRange}

\* C28: for every factory state, every block a client holds and every
\* StorageType, setStorage leaves size, address, callback and the config bits
\* outside the mask as they were and writes the pattern of the type into the
\* field; setStorage(L1) followed by setStorage(L2) gives what setStorage(L2)
\* alone gives.
C28_SetStorageFrame ==
    /\ \A m \in {mold, block}, L \in AnyStorage :
          LET m2 == setStorage(m, L)
          IN  /\ m2.size = m.size
              /\ m2.address = m.address
              /\ m2.update = m.update
              /\ ReservedBits(m2.config) = ReservedBits(m.config)
              /\ m2.config % (MEM_LOC_MSK + 1) = BitSettings(L)
    /\ \A L1 \in AnyStorage, L2 \in AnyStorage :
          setStorage(setStorage(mold, L1), L2) = setStorage(mold, L2)

\* the factory holds size, address and callback from its setters and a
\* location written by setStorage over the reserved bits of a cleared config
C28_Witness ==
    /\ mold.size = 4
    /\ mold.address = 16
    /\ mold.update = "cbTrue"
    /\ mold.config = setStorage(clear(mold), EXTERNAL_FLASH1).config
    /\ ReservedBits(mold.config) # 0
    /\ ReservedBits(block.config) \notin {0, ReservedBits(SizeMax)}

\* C29: whatever the factory holds, the block built after clear() has size,
\* address and config equal to the maximum of size_t, as a default-constructed
\* ControlBlock has, and no callback.
C29_ClearResets ==
    LET b == build(clear(mold))
    IN  /\ b.size = SizeMax
        /\ b.address = SizeMax
        /\ b.config = SizeMax
        /\ b.update = NoCallback
        /\ b = DefaultControlBlock

\* C30: the step that gives the client a new block is a build: the block is
\* a copy of the mold and the factory is unchanged, so that a second build
\* returns an equal block; a step that changes the factory changes neither
\* the block the client holds nor a block passed to or stored by the Manager.
C30_BuildSnapshot ==
    [][/\ block' # block => (block' = build(mold) /\ mold' = mold /\ build(mold') = block')
       /\ mold' # mold => (block' = block /\ params' = params /\ proc' = proc)]_vars

\* the factory has been cleared after the block it built was registered
C30_Witness ==
    /\ mold = clear(mold)
    /\ block.size = 4
    /\ block.update = "cbTrue"
    /\ params["k1"] = <<block>>
    /\ block # build(mold)

(***************************************************************************)
(* C31, C32                                                                *)
(***************************************************************************)
\* C31: no step of a read, write or update puts a key into the registry that
\* was not there, whatever ran since its existence test, and a backend call
\* of read / write is made with the block that was stored under the key when
\* the locked section looked it up, never with a default-constructed one.
C31_NoRecreate ==
    [][\A c \in Callers :
          (proc[c].op \in {"read", "write", "update"} /\ proc[c].pc # "idle" /\ proc'[c] # proc[c])
             => /\ \A k \in Keys : params[k] = Absent => params'[k] = Absent
                /\ proc'[c].pc = "io" /\ proc[c].pc = "locked"
                      => /\ contains(proc[c].key)
                         /\ proc'[c].ctrlBlk = at(params, proc[c].key)]_vars

\* the reserve calls of an operation that returned OK
AcquiredAt(p) == {i \in CallsOf(p, {"reserve"}) : p.calls[i].status = "OK"}

\* C32: an operation calls reserve at most once; it holds the lock exactly
\* from its successful reserve to its release, which comes after that
\* reserve; it releases only what it acquired; and it neither returns nor
\* waits in reserve while it holds the lock.
C32_LockBalance ==
    \A c \in Callers :
        LET p == proc[c]
            acq == AcquiredAt(p)
            rel == CallsOf(p, {"release"})
        IN  /\ Cardinality(CallsOf(p, {"reserve"})) <= 1
            /\ Cardinality(rel) <= Cardinality(acq)
            /\ \A i \in rel : \E j \in acq : j < i
            /\ (lockOwner = c) = (acq # {} /\ rel = {})
            /\ p.pc = "idle" => (lockOwner # c /\ Cardinality(rel) = Cardinality(acq))
            /\ p.pc = "reserve" => lockOwner # c

\* c1 has returned after one reserve and one release, c2 after a reserve that
\* timed out and no release
C32_Witness ==
    /\ proc["c1"].pc = "idle"
    /\ Len(proc["c1"].calls) = 2
    /\ proc["c1"].calls[1].call = "reserve"
    /\ proc["c1"].calls[1].status = "OK"
    /\ proc["c1"].calls[2].call = "release"
    /\ proc["c2"].pc = "idle"
    /\ Len(proc["c2"].calls) = 1
    /\ proc["c2"].calls[1].status = "TIMEOUT"
    /\ lockOwner = NoOwner

(***************************************************************************)
(* C33, C34, C35                                                           *)
(***************************************************************************)
\* C33: under a scheduler that runs every thread, with reserve returning OK
\* or TIMEOUT and backend calls and callbacks returning, an operation in
\* progress always has a next step, and every call of every caller returns.
C33_EveryCallReturns ==
    /\ [](\A c \in Callers : proc[c].pc # "idle" => ENABLED Progress(c))
    /\ \A c \in Callers : (proc[c].pc # "idle") ~> (proc[c].pc = "idle")

\* c1 waits for the lock while c2 is in a backend call or in a callback
C33_Witness ==
    /\ proc["c1"].pc = "reserve"
    /\ proc["c2"].pc \in {"io", "callback"}

\* C34: the Manager starts Uninitialized; initialized becomes true only by
\* the last step of an init, every init that returns leaves it true, and no
\* step of any operation makes it false again.
C34_Monotone ==
    /\ ~initialized
    /\ [][/\ initialized => initialized'
          /\ initialized' # initialized => \E c \in Callers : Completes(c, "init")
          /\ \A c \in Callers : Completes(c, "init") => (initialized' /\ proc'[c].result)]_vars

\* the Manager is Ready after the last key was unregistered, a call timed out
\* on the lock, and an init is running again
C34_Witness ==
    /\ initialized
    /\ Registered = {}
    /\ proc["c1"].pc = "idle"
    /\ proc["c1"].op = "unregisterParameter"
    /\ proc["c1"].result
    /\ proc["c2"].pc \in {"init_fill", "init_set"}

\* the operations on the registry, and those on the Driver Table
RegistryOps == {"registerParameter", "unregisterParameter", "isRegistered", "read", "write", "update"}

TableOps == {"registerMemoryDriver", "registerMemorySpecs"}

\* caller c takes a step of an operation among names
StepOf(c, names) ==
    /\ proc'[c] # proc[c]
    /\ (IF proc[c].pc = "idle" THEN proc'[c].op ELSE proc[c].op) \in names

\* C35: no step of registerParameter, unregisterParameter, isRegistered,
\* read, write or update changes a handle or a descriptor; no step of
\* registerMemoryDriver or registerMemorySpecs changes the registry; a step
\* of isRegistered changes neither of them, nor the Manager's state, nor a
\* backend.
C35_Independent ==
    [][\A c \in Callers :
          /\ StepOf(c, RegistryOps) => (memoryDriver' = memoryDriver /\ memorySpecs' = memorySpecs)
          /\ StepOf(c, TableOps) => params' = params
          /\ StepOf(c, {"isRegistered"})
                => /\ TablesUnchanged
                   /\ initialized' = initialized
                   /\ capacity' = capacity
                   /\ backend' = backend]_vars

\* a read has failed at the backend with keys registered, a handle bound and
\* a descriptor stored
C35_Witness ==
    /\ proc["c1"].pc = "idle"
    /\ proc["c1"].op = "read"
    /\ Len(proc["c1"].calls) = 3
    /\ proc["c1"].calls[3].status = "FAIL"
    /\ contains(proc["c1"].key)
    /\ getStorage(at(params, proc["c1"].key)) \in Slots
    /\ memoryDriver[getStorage(at(params, proc["c1"].key))] \in Handles
    /\ \E s \in Slots : memorySpecs[s] \in Descriptors

(***************************************************************************)
(* C36, C37, C38                                                           *)
(***************************************************************************)
\* C36: whatever the factory holds, setStorage writes different config words
\* for different StorageType values among the 8 locations and 'none'.
C36_EncodingInjective ==
    \A L1 \in StorageTypes, L2 \in StorageTypes :
        setStorage(mold, L1).config = setStorage(mold, L2).config => L1 = L2

\* C37: whatever the factory held, the block built after clear() with no
\* setStorage call decodes to the 'none' sentinel.
C37_ClearedDecodesNone ==
    getStorage(build(clear(mold))) = NONE

\* C38: on every factory state, setSize, setAddress and setUpdateCallback
\* each change their own field only; called in either order, and with
\* setStorage before or after them, they give the same block, and getSize,
\* getAddress and getUpdateCallback of that block return the values set.
C38_SettersIndependent ==
    \A s \in FactorySizes, a \in FactoryAddresses, cb \in Callbacks \cup {NoCallback} :
        /\ setSize(mold, s) = [mold EXCEPT !.size = s]
        /\ setAddress(mold, a) = [mold EXCEPT !.address = a]
        /\ setUpdateCallback(mold, cb) = [mold EXCEPT !.update = cb]
        /\ LET m1 == setUpdateCallback(setAddress(setSize(mold, s), a), cb)
               m2 == setSize(setAddress(setUpdateCallback(mold, cb), a), s)
           IN  /\ m1 = m2
               /\ getSize(build(m1)) = s
               /\ getAddress(build(m1)) = a
               /\ getUpdateCallback(build(m1)) = cb
               /\ \A L \in AnyStorage :
                     LET b1 == build(setStorage(m1, L))
                         b2 == build(setSize(setAddress(setUpdateCallback(setStorage(mold, L), cb), a), s))
                     IN  /\ b1 = b2
                         /\ getSize(b1) = s
                         /\ getAddress(b1) = a
                         /\ getUpdateCallback(b1) = cb

\* the factory holds a size, an address, a callback and a location, each from
\* its setter
C38_Witness ==
    /\ getSize(build(mold)) = 4
    /\ getAddress(build(mold)) = 16
    /\ getUpdateCallback(build(mold)) = "cbFalse"
    /\ mold.config % (MEM_LOC_MSK + 1) = BitSettings(EXTERNAL_FLASH0)

(***************************************************************************)
(* C39                                                                     *)
(***************************************************************************)
\* floor of the largest argument over 2
Threshold == (2 ^ UIntBits - 1) \div 2

\* C39: someEventThing and someLogThing return 100 for an argument below
\* floor(max / 2) and 200 for every other argument; the two agree on every
\* argument and neither returns 500.
C39_ThresholdClassification ==
    /\ eventVal # NoNumber => eventVal = (IF sample < Threshold THEN 100 ELSE 200)
    /\ logVal # NoNumber => logVal = (IF sample < Threshold THEN 100 ELSE 200)
    /\ eventVal # 500 /\ logVal # 500
    /\ \A x \in UInts : someEventThing(x) = someLogThing(x)

\* both placeholders have been called with the threshold itself
C39_Witness ==
    /\ sample = Threshold
    /\ eventVal = 200
    /\ logVal = 200

====
